---- MODULE Spec2Model ----
(***************************************************************************)
(* Model of the audio renderer callbacks of                               *)
(* src/thirdparty/moonlight/callback.c: arInit, arCleanup and              *)
(* arDecodeAndPlaySample, over the file's static state (decoder, encoder,  *)
(* opusConfig, decodedPcm, encodePcm, opusData).                           *)
(*                                                                         *)
(* Each callback is a sequence of steps driven by pc, one step per         *)
(* statement block of the C code.  Calls are serialized: a callback is     *)
(* entered only from pc = "idle" and runs to its return.                   *)
(*                                                                         *)
(* The heap is explicit: every object created by opus_*_create or malloc   *)
(* is an entry of heap, keyed by its identity (kind, number of the arInit  *)
(* call that created it).  The static pointers hold such identities or     *)
(* NULL.  Variables marked "ghost" are observations, not program state.    *)
(***************************************************************************)
EXTENDS Integers, Sequences, FiniteSets, TLC

(***************************************************************************)
(* Bounds of the model.                                                    *)
(***************************************************************************)
MaxChannels == 3          \* channelCount ranges over 1..MaxChannels
MaxSamplesPerFrame == 2   \* samplesPerFrame ranges over 1..MaxSamplesPerFrame
MaxCalls == 3             \* number of callback invocations in a behaviour

(***************************************************************************)
(* Program constants.                                                      *)
(***************************************************************************)
PacketCapacity == 4000    \* malloc(4000) and the max_data_bytes of opus_encode
BitratePerChannel == 64000
Complexity == 5
StereoChannels == 2       \* the "> 2" / "? 2" / "* 2" of the downmix path

(***************************************************************************)
(* Values.                                                                 *)
(***************************************************************************)
NULL == [kind |-> "null", epoch |-> 0]
Uninit == -1              \* content of a malloc'ed sample never written
ZeroConfig ==
    [sampleRate |-> 0, channelCount |-> 0, streams |-> 0,
     coupledStreams |-> 0, samplesPerFrame |-> 0]

\* A config pointer that is NULL.
NullConfig ==
    [sampleRate |-> -1, channelCount |-> -1, streams |-> -1,
     coupledStreams |-> -1, samplesPerFrame |-> -1]

\* A config of ch channels and spf samples per frame with a stream layout
\* covering the channels: (ch + 1) / 2 streams, ch / 2 of them coupled.
Layout(ch, spf) ==
    [sampleRate |-> 48000, channelCount |-> ch, streams |-> (ch + 1) \div 2,
     coupledStreams |-> ch \div 2, samplesPerFrame |-> spf]

\* The configs that meet the preconditions of Initialize.
Configs ==
    {Layout(ch, spf) : ch \in 1..MaxChannels, spf \in 1..MaxSamplesPerFrame}

\* One config per violated precondition: sampleRate = 0, channelCount = 0,
\* streams = 0, coupledStreams > streams, samplesPerFrame = 0.
BadConfigs ==
    {[Layout(2, 1) EXCEPT !.sampleRate = 0],
     [Layout(2, 1) EXCEPT !.channelCount = 0],
     [Layout(2, 1) EXCEPT !.streams = 0, !.coupledStreams = 0],
     [Layout(2, 1) EXCEPT !.coupledStreams = 2],
     [Layout(2, 1) EXCEPT !.samplesPerFrame = 0]}

\* What the caller may pass as config.
InitArguments == Configs \cup BadConfigs \cup {NullConfig}

\* The sampling rates the codec supports.
SampleRates == {8000, 12000, 16000, 24000, 48000}

\* opus_multistream_decoder_create rejects (OPUS_BAD_ARG) a layout with
\* channels or streams out of range, more coupled streams than streams, or
\* an unsupported sampling rate.
DecoderAccepts(cfg) ==
    /\ cfg.sampleRate \in SampleRates
    /\ cfg.channelCount >= 1
    /\ cfg.channelCount <= 255
    /\ cfg.streams >= 1
    /\ cfg.coupledStreams >= 0
    /\ cfg.coupledStreams <= cfg.streams
    /\ cfg.streams + cfg.coupledStreams <= 255

\* opus_encoder_create rejects an unsupported sampling rate and a channel
\* count other than 1 or 2.
EncoderAccepts(rate, channels) ==
    rate \in SampleRates /\ channels \in {1, 2}

\* A compressed frame is identified by the PCM the decoder produces for it.
Frames == {[front |-> 0, rear |-> 0], [front |-> 0, rear |-> 1],
           [front |-> 1, rear |-> 0]}
NullFrame == [front |-> -1, rear |-> -1]
SampleLengths == {0, 1}

\* The sample the decoder writes for frame fr at sample i, channel c.
PcmValue(fr, i, c) ==
    IF c < StereoChannels THEN 100 * fr.front + 10 * i + c
                          ELSE 100 * fr.rear + 10 * i + c

\* An encoder told that the packet buffer holds one byte more than it does.
EncodeResults_OverCapacity == {-1, 1, PacketCapacity + 1}

\* What opus_encode may return: a negative error or the length of the packet
\* it stored, between 1 (a packet has at least its table-of-contents byte;
\* a frame of 0 samples is an error) and max_data_bytes.
EncodeResults == {-1, 1, PacketCapacity}

VARIABLES
    pc,              \* position of the running callback, "idle" between calls
    decoder,         \* static OpusMSDecoder* decoder
    encoder,         \* static OpusEncoder* encoder
    decodedPcm,      \* static short* decodedPcm
    encodePcm,       \* static short* encodePcm
    opusData,        \* static unsigned char* opusData
    opusConfig,      \* static OPUS_MULTISTREAM_CONFIGURATION opusConfig
    heap,            \* live objects: identity -> object
    config,          \* arInit: the config argument
    sampleData,      \* arDecodeAndPlaySample: argument
    sampleLength,    \* arDecodeAndPlaySample: argument
    decodedSamples,  \* arDecodeAndPlaySample: local
    inputPcm,        \* arDecodeAndPlaySample: local
    encodedBytes,    \* arDecodeAndPlaySample: local
    epoch,           \* ghost: number of arInit calls made
    cleanupCalls,    \* ghost: number of arCleanup calls made
    goArCleanupCalls,\* ghost: number of goArCleanup notifications
    calls,           \* ghost: per arDecodeAndPlaySample call, what the
                     \*   library calls it made returned
    forwards,        \* ghost: log of goArPlayEncodedSample calls, each the
                     \*   number of the arDecodeAndPlaySample call making it
    encoderInput,    \* ghost: the samples opus_encode read in this call
    touched,         \* ghost: buffer cells read/written by this call
    memFault,        \* ghost: a freed/null/out-of-range object was used
    entry,           \* ghost: snapshot of the state at entry of the call
    last,            \* ghost: the callback that returned last and its result
    sinceCleanup,    \* ghost: arCleanup returned, no arInit returned 0 since
    otherPc,         \* position of an arCleanup call running on another
                     \*   thread, "idle" when there is none
    overlapped       \* ghost: an arCleanup call on another thread has run
                     \*   while arDecodeAndPlaySample was running

handles == <<decoder, encoder, decodedPcm, encodePcm, opusData>>
initLocals == <<config>>
frameLocals == <<sampleData, sampleLength, decodedSamples, inputPcm, encodedBytes>>
hostLogs == <<goArCleanupCalls, calls, forwards, encoderInput>>
counters == <<epoch, cleanupCalls>>
otherThread == <<otherPc, overlapped>>
vars == <<pc, decoder, encoder, decodedPcm, encodePcm, opusData, opusConfig,
          heap, config, sampleData, sampleLength, decodedSamples, inputPcm,
          encodedBytes, epoch, cleanupCalls, goArCleanupCalls, calls,
          forwards, encoderInput, touched, memFault, entry, last,
          sinceCleanup, otherPc, overlapped>>

\* The callbacks invoked so far.
Invocations == epoch + cleanupCalls + Len(calls)

(***************************************************************************)
(* Heap helpers.                                                           *)
(***************************************************************************)
Ident(kind) == [kind |-> kind, epoch |-> epoch]

\* malloc(n samples): a fresh buffer with indeterminate content.
NewBuffer(cap) == [cap |-> cap, data |-> [i \in 0..(cap - 1) |-> Uninit]]

HeapAlloc(hp, h, obj) == hp @@ (h :> obj)

\* free / destroy of every object of hs.
HeapFree(hp, hs) == [o \in (DOMAIN hp) \ hs |-> hp[o]]

\* free / destroy of an object that is not live is a fault.
FreeFault(hp, hs) == \E h \in hs : h \notin DOMAIN hp

\* The state a callback sees at entry.
Snapshot ==
    [decoder |-> decoder, encoder |-> encoder, decodedPcm |-> decodedPcm,
     encodePcm |-> encodePcm, opusData |-> opusData,
     opusConfig |-> opusConfig, allocated |-> DOMAIN heap,
     forwards |-> Len(forwards), goArCleanupCalls |-> goArCleanupCalls,
     sinceCleanup |-> sinceCleanup]

\* Between calls the ghosts of the previous call are cleared.
NoEntry ==
    [decoder |-> NULL, encoder |-> NULL, decodedPcm |-> NULL,
     encodePcm |-> NULL, opusData |-> NULL, opusConfig |-> ZeroConfig,
     allocated |-> {}, forwards |-> 0, goArCleanupCalls |-> 0,
     sinceCleanup |-> FALSE]
NoLast == [op |-> "none", ret |-> 0, cause |-> "none"]

Init ==
    /\ pc = "idle"
    /\ decoder = NULL
    /\ encoder = NULL
    /\ decodedPcm = NULL
    /\ encodePcm = NULL
    /\ opusData = NULL
    /\ opusConfig = ZeroConfig
    /\ heap = [o \in {} |-> 0]
    /\ config = ZeroConfig
    /\ sampleData = NullFrame
    /\ sampleLength = 0
    /\ decodedSamples = 0
    /\ inputPcm = NULL
    /\ encodedBytes = 0
    /\ epoch = 0
    /\ cleanupCalls = 0
    /\ goArCleanupCalls = 0
    /\ calls = <<>>
    /\ forwards = <<>>
    /\ encoderInput = <<>>
    /\ touched = {}
    /\ memFault = FALSE
    /\ entry = NoEntry
    /\ last = NoLast
    /\ sinceCleanup = FALSE
    /\ otherPc = "idle"
    /\ overlapped = FALSE

(***************************************************************************)
(* arInit                                                                  *)
(***************************************************************************)

\* The "return r" of arInit: back to the caller.
arInit_Return(r, cause) ==
    /\ pc' = "init_return"
    /\ last' = [op |-> "init", ret |-> r, cause |-> cause]
    /\ sinceCleanup' = IF r = 0 THEN FALSE ELSE sinceCleanup
    /\ config' = config

\* The caller invokes arInit(audioConfiguration, config, context, arFlags).
arInit_Enter(cfg) ==
    /\ pc = "idle"
    /\ Invocations < MaxCalls
    /\ pc' = "init_destroy_decoder"
    /\ epoch' = epoch + 1
    /\ config' = cfg
    /\ entry' = Snapshot
    /\ touched' = {}
    /\ UNCHANGED <<handles, opusConfig, heap, frameLocals, cleanupCalls,
                   hostLogs, memFault, last, sinceCleanup>>
    /\ UNCHANGED otherThread

\* if (decoder != NULL) { opus_multistream_decoder_destroy(decoder); decoder = NULL; }
arInit_DestroyDecoder ==
    /\ pc = "init_destroy_decoder"
    /\ IF decoder # NULL
         THEN /\ heap' = HeapFree(heap, {decoder})
              /\ memFault' = (memFault \/ FreeFault(heap, {decoder}))
              /\ decoder' = NULL
         ELSE UNCHANGED <<heap, memFault, decoder>>
    /\ pc' = "init_destroy_encoder"
    /\ UNCHANGED <<encoder, decodedPcm, encodePcm, opusData, opusConfig,
                   initLocals, frameLocals, counters, hostLogs, touched,
                   entry, last, sinceCleanup>>
    /\ UNCHANGED otherThread

\* The prior encoder is not destroyed before the new pair is constructed.
arInit_DestroyEncoder_Skipped ==
    /\ pc = "init_destroy_encoder"
    /\ pc' = "init_snapshot"
    /\ UNCHANGED <<handles, heap, memFault, opusConfig, initLocals,
                   frameLocals, counters, hostLogs, touched, entry, last,
                   sinceCleanup>>
    /\ UNCHANGED otherThread

\* if (encoder != NULL) { opus_encoder_destroy(encoder); encoder = NULL; }
arInit_DestroyEncoder ==
    /\ pc = "init_destroy_encoder"
    /\ IF encoder # NULL
         THEN /\ heap' = HeapFree(heap, {encoder})
              /\ memFault' = (memFault \/ FreeFault(heap, {encoder}))
              /\ encoder' = NULL
         ELSE UNCHANGED <<heap, memFault, encoder>>
    /\ pc' = "init_snapshot"
    /\ UNCHANGED <<decoder, decodedPcm, encodePcm, opusData, opusConfig,
                   initLocals, frameLocals, counters, hostLogs, touched,
                   entry, last, sinceCleanup>>
    /\ UNCHANGED otherThread

\* The config is captured by the first arInit only.
arInit_Snapshot_FirstOnly ==
    /\ pc = "init_snapshot"
    /\ opusConfig' = IF opusConfig = ZeroConfig THEN config ELSE opusConfig
    /\ pc' = "init_create_decoder"
    /\ UNCHANGED <<handles, heap, initLocals, frameLocals, counters, hostLogs,
                   touched, memFault, entry, last, sinceCleanup>>
    /\ UNCHANGED otherThread

\* if (config != NULL) { opusConfig = *config; }
arInit_Snapshot ==
    /\ pc = "init_snapshot"
    /\ opusConfig' = IF config # NullConfig THEN config ELSE opusConfig
    /\ pc' = "init_create_decoder"
    /\ UNCHANGED <<handles, heap, initLocals, frameLocals, counters, hostLogs,
                   touched, memFault, entry, last, sinceCleanup>>
    /\ UNCHANGED otherThread

\* config->sampleRate with config == NULL: a null pointer dereference, the
\* process is killed inside arInit.
arInit_NullDereference ==
    /\ pc = "init_create_decoder"
    /\ config = NullConfig
    /\ pc' = "crashed"
    /\ UNCHANGED <<handles, opusConfig, heap, initLocals, frameLocals,
                   counters, hostLogs, touched, memFault, entry, last,
                   sinceCleanup>>
    /\ UNCHANGED otherThread

\* decoder = opus_multistream_decoder_create(...);
\* if (err != OPUS_OK || decoder == NULL) return -1;
\* The library fails on arguments it rejects and may fail for lack of memory.
arInit_CreateDecoder ==
    /\ pc = "init_create_decoder"
    /\ config # NullConfig
    /\ \E ok \in (IF DecoderAccepts(config) THEN BOOLEAN ELSE {FALSE}) :
         IF ok
           THEN /\ decoder' = Ident("decoder")
                /\ heap' = HeapAlloc(heap, Ident("decoder"),
                                     [channels |-> config.channelCount])
                /\ pc' = "init_create_encoder"
                /\ UNCHANGED <<initLocals, last, sinceCleanup>>
           ELSE /\ decoder' = NULL
                /\ heap' = heap
                /\ arInit_Return(-1, "decoder")
    /\ UNCHANGED <<encoder, decodedPcm, encodePcm, opusData, opusConfig,
                   frameLocals, counters, hostLogs, touched, memFault, entry>>
    /\ UNCHANGED otherThread

\* The encoder is built for 2 channels whatever the config says.
OutputChannels_AlwaysStereo(cfg) == StereoChannels

\* outputChannels = (config->channelCount > 2) ? 2 : config->channelCount;
\* encoder = opus_encoder_create(...); on failure destroy the decoder, return -1;
\* else OPUS_SET_BITRATE(64000 * outputChannels), OPUS_SET_COMPLEXITY(5).
OutputChannels(cfg) ==
    IF cfg.channelCount > StereoChannels THEN StereoChannels
                                         ELSE cfg.channelCount

\* A failing opus_encoder_create after which the decoder is destroyed and
\* its handle left as it was.
arInit_CreateEncoder_DanglingDecoder ==
    /\ pc = "init_create_encoder"
    /\ \E ok \in (IF EncoderAccepts(config.sampleRate, OutputChannels(config))
                   THEN BOOLEAN ELSE {FALSE}) :
         IF ok
           THEN /\ encoder' = Ident("encoder")
                /\ heap' = HeapAlloc(heap, Ident("encoder"),
                             [channels |-> OutputChannels(config),
                              bitrate |-> BitratePerChannel * OutputChannels(config),
                              complexity |-> Complexity])
                /\ pc' = "init_alloc_decodedPcm"
                /\ UNCHANGED <<decoder, memFault, initLocals, last, sinceCleanup>>
           ELSE /\ encoder' = NULL
                /\ heap' = HeapFree(heap, {decoder})
                /\ memFault' = (memFault \/ FreeFault(heap, {decoder}))
                /\ decoder' = decoder
                /\ arInit_Return(-1, "encoder")
    /\ UNCHANGED <<decodedPcm, encodePcm, opusData, opusConfig, frameLocals,
                   counters, hostLogs, touched, entry>>
    /\ UNCHANGED otherThread

\* encoder = opus_encoder_create(sampleRate, outputChannels, ...);
\* if (err != OPUS_OK || encoder == NULL) { destroy decoder; decoder = NULL; return -1; }
arInit_CreateEncoder ==
    /\ pc = "init_create_encoder"
    /\ \E ok \in (IF EncoderAccepts(config.sampleRate, OutputChannels(config))
                   THEN BOOLEAN ELSE {FALSE}) :
         IF ok
           THEN /\ encoder' = Ident("encoder")
                /\ heap' = HeapAlloc(heap, Ident("encoder"),
                             [channels |-> OutputChannels(config),
                              bitrate |-> BitratePerChannel * OutputChannels(config),
                              complexity |-> Complexity])
                /\ pc' = "init_alloc_decodedPcm"
                /\ UNCHANGED <<decoder, memFault, initLocals, last, sinceCleanup>>
           ELSE /\ encoder' = NULL
                /\ heap' = HeapFree(heap, {decoder})
                /\ memFault' = (memFault \/ FreeFault(heap, {decoder}))
                /\ decoder' = NULL
                /\ arInit_Return(-1, "encoder")
    /\ UNCHANGED <<decodedPcm, encodePcm, opusData, opusConfig, frameLocals,
                   counters, hostLogs, touched, entry>>
    /\ UNCHANGED otherThread

\* pcmBufferSize = samplesPerFrame * channelCount; free the old decodedPcm;
\* decodedPcm = malloc(sizeof(short) * pcmBufferSize); on failure destroy the
\* decoder and the encoder, return -1.
arInit_AllocDecodedPcm ==
    /\ pc = "init_alloc_decodedPcm"
    /\ LET old == IF decodedPcm # NULL THEN {decodedPcm} ELSE {}
           hp1 == HeapFree(heap, old)
           size == config.samplesPerFrame * config.channelCount
       IN  \E ok \in BOOLEAN :
             IF ok
               THEN /\ decodedPcm' = Ident("decodedPcm")
                    /\ heap' = HeapAlloc(hp1, Ident("decodedPcm"), NewBuffer(size))
                    /\ memFault' = (memFault \/ FreeFault(heap, old))
                    /\ pc' = "init_alloc_encodePcm"
                    /\ UNCHANGED <<decoder, encoder, initLocals, last, sinceCleanup>>
               ELSE /\ decodedPcm' = NULL
                    /\ heap' = HeapFree(hp1, {decoder, encoder})
                    /\ memFault' = (memFault \/ FreeFault(heap, old)
                                             \/ FreeFault(hp1, {decoder, encoder}))
                    /\ decoder' = NULL
                    /\ encoder' = NULL
                    /\ arInit_Return(-1, "decodedPcm")
    /\ UNCHANGED <<encodePcm, opusData, opusConfig, frameLocals, counters,
                   hostLogs, touched, entry>>
    /\ UNCHANGED otherThread

\* if (config->channelCount > 2) { free the old encodePcm;
\*   encodePcm = malloc(sizeof(short) * samplesPerFrame * 2); on failure free
\*   decodedPcm, destroy the decoder and the encoder, return -1; }
arInit_AllocEncodePcm ==
    /\ pc = "init_alloc_encodePcm"
    /\ IF config.channelCount > StereoChannels
         THEN LET old == IF encodePcm # NULL THEN {encodePcm} ELSE {}
                  hp1 == HeapFree(heap, old)
                  size == config.samplesPerFrame * StereoChannels
              IN  \E ok \in BOOLEAN :
                    IF ok
                      THEN /\ encodePcm' = Ident("encodePcm")
                           /\ heap' = HeapAlloc(hp1, Ident("encodePcm"), NewBuffer(size))
                           /\ memFault' = (memFault \/ FreeFault(heap, old))
                           /\ pc' = "init_alloc_opusData"
                           /\ UNCHANGED <<decoder, encoder, decodedPcm,
                                          initLocals, last, sinceCleanup>>
                      ELSE /\ encodePcm' = NULL
                           /\ heap' = HeapFree(hp1, {decodedPcm, decoder, encoder})
                           /\ memFault' = (memFault \/ FreeFault(heap, old)
                                             \/ FreeFault(hp1, {decodedPcm, decoder, encoder}))
                           /\ decodedPcm' = NULL
                           /\ decoder' = NULL
                           /\ encoder' = NULL
                           /\ arInit_Return(-1, "encodePcm")
         ELSE /\ pc' = "init_alloc_opusData"
              /\ UNCHANGED <<decoder, encoder, decodedPcm, encodePcm, heap,
                             memFault, initLocals, last, sinceCleanup>>
    /\ UNCHANGED <<opusData, opusConfig, frameLocals, counters, hostLogs,
                   touched, entry>>
    /\ UNCHANGED otherThread

\* A rollback that frees the buffers and forgets the decoder and the encoder.
arInit_AllocOpusData_KeepsCodecs ==
    /\ pc = "init_alloc_opusData"
    /\ LET old == IF opusData # NULL THEN {opusData} ELSE {}
           hp1 == HeapFree(heap, old)
           rollback == (IF encodePcm # NULL THEN {encodePcm} ELSE {})
                         \cup {decodedPcm}
       IN  \E ok \in BOOLEAN :
             IF ok
               THEN /\ opusData' = Ident("opusData")
                    /\ heap' = HeapAlloc(hp1, Ident("opusData"),
                                         [cap |-> PacketCapacity])
                    /\ memFault' = (memFault \/ FreeFault(heap, old))
                    /\ pc' = "init_goArInit"
                    /\ UNCHANGED <<decoder, encoder, decodedPcm, encodePcm,
                                   initLocals, last, sinceCleanup>>
               ELSE /\ opusData' = NULL
                    /\ heap' = HeapFree(hp1, rollback)
                    /\ memFault' = (memFault \/ FreeFault(heap, old)
                                             \/ FreeFault(hp1, rollback))
                    /\ decodedPcm' = NULL
                    /\ encodePcm' = NULL
                    /\ UNCHANGED <<decoder, encoder>>
                    /\ arInit_Return(-1, "opusData")
    /\ UNCHANGED <<opusConfig, frameLocals, counters, hostLogs, touched, entry>>
    /\ UNCHANGED otherThread

\* free the old opusData; opusData = malloc(4000); on failure free encodePcm
\* (if any) and decodedPcm, destroy the decoder and the encoder, return -1.
arInit_AllocOpusData ==
    /\ pc = "init_alloc_opusData"
    /\ LET old == IF opusData # NULL THEN {opusData} ELSE {}
           hp1 == HeapFree(heap, old)
           rollback == (IF encodePcm # NULL THEN {encodePcm} ELSE {})
                         \cup {decodedPcm, decoder, encoder}
       IN  \E ok \in BOOLEAN :
             IF ok
               THEN /\ opusData' = Ident("opusData")
                    /\ heap' = HeapAlloc(hp1, Ident("opusData"),
                                         [cap |-> PacketCapacity])
                    /\ memFault' = (memFault \/ FreeFault(heap, old))
                    /\ pc' = "init_goArInit"
                    /\ UNCHANGED <<decoder, encoder, decodedPcm, encodePcm,
                                   initLocals, last, sinceCleanup>>
               ELSE /\ opusData' = NULL
                    /\ heap' = HeapFree(hp1, rollback)
                    /\ memFault' = (memFault \/ FreeFault(heap, old)
                                             \/ FreeFault(hp1, rollback))
                    /\ decodedPcm' = NULL
                    /\ encodePcm' = NULL
                    /\ decoder' = NULL
                    /\ encoder' = NULL
                    /\ arInit_Return(-1, "opusData")
    /\ UNCHANGED <<opusConfig, frameLocals, counters, hostLogs, touched, entry>>
    /\ UNCHANGED otherThread

\* return goArInit(audioConfiguration, config, context, arFlags);
\* the host callback returns 0 or a failure code.
arInit_GoArInit ==
    /\ pc = "init_goArInit"
    /\ \E r \in {0, -1} :
         arInit_Return(r, IF r = 0 THEN "none" ELSE "goArInit")
    /\ UNCHANGED <<handles, opusConfig, heap, frameLocals, counters, hostLogs,
                   touched, memFault, entry>>
    /\ UNCHANGED otherThread

arInit ==
    \/ \E cfg \in InitArguments : arInit_Enter(cfg)
    \/ arInit_DestroyDecoder
    \/ arInit_DestroyEncoder
    \/ arInit_Snapshot
    \/ arInit_NullDereference
    \/ arInit_CreateDecoder
    \/ arInit_CreateEncoder
    \/ arInit_AllocDecodedPcm
    \/ arInit_AllocEncodePcm
    \/ arInit_AllocOpusData
    \/ arInit_GoArInit

(***************************************************************************)
(* arCleanup                                                               *)
(***************************************************************************)

\* The caller invokes arCleanup().
arCleanup_Enter ==
    /\ pc = "idle"
    /\ Invocations < MaxCalls
    /\ pc' = "cleanup_decoder"
    /\ cleanupCalls' = cleanupCalls + 1
    /\ entry' = Snapshot
    /\ touched' = {}
    /\ UNCHANGED <<handles, opusConfig, heap, initLocals, frameLocals, epoch,
                   hostLogs, memFault, last, sinceCleanup>>
    /\ UNCHANGED otherThread

\* if (decoder != NULL) { opus_multistream_decoder_destroy(decoder); decoder = NULL; }
arCleanup_Decoder ==
    /\ pc = "cleanup_decoder"
    /\ IF decoder # NULL
         THEN /\ heap' = HeapFree(heap, {decoder})
              /\ memFault' = (memFault \/ FreeFault(heap, {decoder}))
              /\ decoder' = NULL
         ELSE UNCHANGED <<heap, memFault, decoder>>
    /\ pc' = "cleanup_encoder"
    /\ UNCHANGED <<encoder, decodedPcm, encodePcm, opusData, opusConfig,
                   initLocals, frameLocals, counters, hostLogs, touched,
                   entry, last, sinceCleanup>>
    /\ UNCHANGED otherThread

\* if (encoder != NULL) { opus_encoder_destroy(encoder); encoder = NULL; }
arCleanup_Encoder ==
    /\ pc = "cleanup_encoder"
    /\ IF encoder # NULL
         THEN /\ heap' = HeapFree(heap, {encoder})
              /\ memFault' = (memFault \/ FreeFault(heap, {encoder}))
              /\ encoder' = NULL
         ELSE UNCHANGED <<heap, memFault, encoder>>
    /\ pc' = "cleanup_decodedPcm"
    /\ UNCHANGED <<decoder, decodedPcm, encodePcm, opusData, opusConfig,
                   initLocals, frameLocals, counters, hostLogs, touched,
                   entry, last, sinceCleanup>>
    /\ UNCHANGED otherThread

\* if (decodedPcm != NULL) { free(decodedPcm); decodedPcm = NULL; }
arCleanup_DecodedPcm ==
    /\ pc = "cleanup_decodedPcm"
    /\ IF decodedPcm # NULL
         THEN /\ heap' = HeapFree(heap, {decodedPcm})
              /\ memFault' = (memFault \/ FreeFault(heap, {decodedPcm}))
              /\ decodedPcm' = NULL
         ELSE UNCHANGED <<heap, memFault, decodedPcm>>
    /\ pc' = "cleanup_encodePcm"
    /\ UNCHANGED <<decoder, encoder, encodePcm, opusData, opusConfig,
                   initLocals, frameLocals, counters, hostLogs, touched,
                   entry, last, sinceCleanup>>
    /\ UNCHANGED otherThread

\* The downmix buffer is forgotten by the teardown.
arCleanup_EncodePcm_Skipped ==
    /\ pc = "cleanup_encodePcm"
    /\ pc' = "cleanup_opusData"
    /\ UNCHANGED <<handles, heap, memFault, opusConfig, initLocals,
                   frameLocals, counters, hostLogs, touched, entry, last,
                   sinceCleanup>>
    /\ UNCHANGED otherThread

\* if (encodePcm != NULL) { free(encodePcm); encodePcm = NULL; }
arCleanup_EncodePcm ==
    /\ pc = "cleanup_encodePcm"
    /\ IF encodePcm # NULL
         THEN /\ heap' = HeapFree(heap, {encodePcm})
              /\ memFault' = (memFault \/ FreeFault(heap, {encodePcm}))
              /\ encodePcm' = NULL
         ELSE UNCHANGED <<heap, memFault, encodePcm>>
    /\ pc' = "cleanup_opusData"
    /\ UNCHANGED <<decoder, encoder, decodedPcm, opusData, opusConfig,
                   initLocals, frameLocals, counters, hostLogs, touched,
                   entry, last, sinceCleanup>>
    /\ UNCHANGED otherThread

\* if (opusData != NULL) { free(opusData); opusData = NULL; }
arCleanup_OpusData ==
    /\ pc = "cleanup_opusData"
    /\ IF opusData # NULL
         THEN /\ heap' = HeapFree(heap, {opusData})
              /\ memFault' = (memFault \/ FreeFault(heap, {opusData}))
              /\ opusData' = NULL
         ELSE UNCHANGED <<heap, memFault, opusData>>
    /\ pc' = "cleanup_goArCleanup"
    /\ UNCHANGED <<decoder, encoder, decodedPcm, encodePcm, opusConfig,
                   initLocals, frameLocals, counters, hostLogs, touched,
                   entry, last, sinceCleanup>>
    /\ UNCHANGED otherThread

\* goArCleanup(); and return.
arCleanup_GoArCleanup ==
    /\ pc = "cleanup_goArCleanup"
    /\ goArCleanupCalls' = goArCleanupCalls + 1
    /\ pc' = "cleanup_return"
    /\ last' = [op |-> "cleanup", ret |-> 0, cause |-> "none"]
    /\ sinceCleanup' = TRUE
    /\ UNCHANGED <<handles, opusConfig, heap, initLocals, frameLocals,
                   counters, calls, forwards, encoderInput, touched, memFault,
                   entry>>
    /\ UNCHANGED otherThread

arCleanup ==
    \/ arCleanup_Enter
    \/ arCleanup_Decoder
    \/ arCleanup_Encoder
    \/ arCleanup_DecodedPcm
    \/ arCleanup_EncodePcm
    \/ arCleanup_OpusData
    \/ arCleanup_GoArCleanup

(***************************************************************************)
(* arDecodeAndPlaySample                                                   *)
(***************************************************************************)

\* Cells 0..(n-1) of a buffer access of n samples.
Cells(n) == 0..(n - 1)

\* The cell of buffer h at index k; a read outside a live buffer yields an
\* indeterminate value.
ReadCell(hp, h, k) ==
    IF h \in DOMAIN hp /\ k \in DOMAIN hp[h].data THEN hp[h].data[k] ELSE Uninit

\* Buffer h after the cells of w (index -> sample) are stored into it.
WriteCells(hp, h, w) ==
    IF h \in DOMAIN hp
      THEN [hp EXCEPT ![h].data =
              [k \in DOMAIN @ |-> IF k \in DOMAIN w THEN w[k] ELSE @[k]]]
      ELSE hp

\* An access to cells ks of h is a fault unless h is live and ks in range.
AccessFault(hp, h, ks) ==
    \/ h \notin DOMAIN hp
    \/ \E k \in ks : k < 0 \/ k >= hp[h].cap

Touch(h, op, ks) == {[buf |-> h, op |-> op, idx |-> k] : k \in ks}

\* The "return" of arDecodeAndPlaySample.
arDecodeAndPlaySample_Return(cause) ==
    /\ pc' = "frame_return"
    /\ last' = [op |-> "frame", ret |-> 0, cause |-> cause]
    /\ sampleData' = NullFrame
    /\ sampleLength' = 0
    /\ decodedSamples' = 0
    /\ inputPcm' = NULL
    /\ encodedBytes' = IF cause = "forwarded" THEN encodedBytes ELSE 0

\* An entry check that does not look at the decoder and the encoder.
EntryGuard_NoLivenessCheck(data, len) == data = NullFrame \/ len <= 0

\* if (decoder == NULL || encoder == NULL || sampleData == NULL || sampleLength <= 0)
EntryGuard(data, len) ==
    decoder = NULL \/ encoder = NULL \/ data = NullFrame \/ len <= 0

\* The caller invokes arDecodeAndPlaySample(sampleData, sampleLength);
\* the entry check returns at once or lets the frame through.
arDecodeAndPlaySample_Enter(data, len) ==
    /\ pc = "idle"
    /\ Invocations < MaxCalls
    /\ entry' = Snapshot
    /\ touched' = {}
    /\ encoderInput' = <<>>
    /\ calls' = Append(calls, [dec |-> "none", enc |-> "none"])
    /\ IF EntryGuard(data, len)
         THEN arDecodeAndPlaySample_Return("guard")
         ELSE /\ pc' = "frame_decode"
              /\ sampleData' = data
              /\ sampleLength' = len
              /\ UNCHANGED <<decodedSamples, inputPcm, encodedBytes, last>>
    /\ UNCHANGED <<handles, opusConfig, heap, initLocals, counters,
                   goArCleanupCalls, forwards, memFault, sinceCleanup>>
    /\ UNCHANGED otherThread

\* What opus_multistream_decode stores for n samples per channel of a
\* decoder of ch channels: interleaved, cell i*ch + c.
DecodedCells(fr, n, ch) ==
    [k \in Cells(n * ch) |-> PcmValue(fr, k \div ch, k % ch)]

\* decodedSamples = opus_multistream_decode(decoder, sampleData, sampleLength,
\*                      decodedPcm, opusConfig.samplesPerFrame, 0);
\* if (decodedSamples < 0) return;
\* The library returns the number of samples per channel it decoded, at most
\* frame_size, or a negative error; on an error it may already have stored
\* samples, never more than frame_size per channel.
DecodeResults == (-1)..opusConfig.samplesPerFrame

arDecodeAndPlaySample_Decode ==
    /\ pc = "frame_decode"
    /\ \E n \in DecodeResults :
       \E stored \in 0..opusConfig.samplesPerFrame :
         /\ n >= 0 => stored = n
         /\ LET ch == IF decoder \in DOMAIN heap THEN heap[decoder].channels ELSE 0
                w == DecodedCells(sampleData, stored, ch)
            IN  /\ heap' = WriteCells(heap, decodedPcm, w)
                /\ touched' = touched \cup Touch(decodedPcm, "w", DOMAIN w)
                /\ memFault' = (memFault \/ decoder \notin DOMAIN heap
                                  \/ AccessFault(heap, decodedPcm, DOMAIN w))
         /\ calls' = [calls EXCEPT ![Len(calls)].dec =
                         IF n < 0 THEN "error" ELSE "ok"]
         /\ IF n < 0
              THEN arDecodeAndPlaySample_Return("decode")
              ELSE /\ decodedSamples' = n
                   /\ pc' = "frame_downmix"
                   /\ UNCHANGED <<sampleData, sampleLength, inputPcm,
                                  encodedBytes, last>>
    /\ UNCHANGED <<handles, opusConfig, initLocals, counters, goArCleanupCalls,
                   forwards, encoderInput, entry, sinceCleanup>>
    /\ UNCHANGED otherThread

\* A wrong stride: the decode buffer read as if it were stereo.
DownmixSource_StereoStride(n, ch) ==
    [k \in Cells(n * StereoChannels) |->
        (k \div StereoChannels) * StereoChannels + (k % StereoChannels)]

\* The loop run over i <= n.
DownmixSource_OffByOne(n, ch) ==
    [k \in Cells((n + 1) * StereoChannels) |->
        (k \div StereoChannels) * ch + (k % StereoChannels)]

\* The loop body over i < n: encodePcm[i*2 + 0] = decodedPcm[i*ch + 0];
\*                           encodePcm[i*2 + 1] = decodedPcm[i*ch + 1];
\* as the map from the written cell to the cell it is read from.
DownmixSource(n, ch) ==
    [k \in Cells(n * StereoChannels) |->
        (k \div StereoChannels) * ch + (k % StereoChannels)]

\* The downmix runs whenever a downmix buffer is there.
DownmixNeeded_WheneverAllocated(cfg, buf) == buf # NULL

\* opusConfig.channelCount > 2 && encodePcm != NULL
DownmixNeeded(cfg, buf) == cfg.channelCount > StereoChannels /\ buf # NULL

\* short* inputPcm = decodedPcm;
\* if (opusConfig.channelCount > 2 && encodePcm != NULL) { loop; inputPcm = encodePcm; }
arDecodeAndPlaySample_Downmix ==
    /\ pc = "frame_downmix"
    /\ IF DownmixNeeded(opusConfig, encodePcm)
         THEN LET src == DownmixSource(decodedSamples, opusConfig.channelCount)
                  rd == {src[k] : k \in DOMAIN src}
                  w == [k \in DOMAIN src |-> ReadCell(heap, decodedPcm, src[k])]
              IN  /\ heap' = WriteCells(heap, encodePcm, w)
                  /\ touched' = touched \cup Touch(decodedPcm, "r", rd)
                                        \cup Touch(encodePcm, "w", DOMAIN w)
                  /\ memFault' = (memFault \/ AccessFault(heap, decodedPcm, rd)
                                    \/ AccessFault(heap, encodePcm, DOMAIN w))
                  /\ inputPcm' = encodePcm
         ELSE /\ inputPcm' = decodedPcm
              /\ UNCHANGED <<heap, touched, memFault>>
    /\ pc' = "frame_encode"
    /\ UNCHANGED <<handles, opusConfig, initLocals, sampleData, sampleLength,
                   decodedSamples, encodedBytes, counters, hostLogs, entry,
                   last, sinceCleanup>>
    /\ UNCHANGED otherThread

\* A missing error check: the packet is forwarded whatever opus_encode returns.
EncodeOutcome_NoErrorCheck(r) ==
    /\ encodedBytes' = r
    /\ pc' = "frame_forward"
    /\ UNCHANGED <<sampleData, sampleLength, decodedSamples, inputPcm, last>>

\* encodedBytes = <r>; if (encodedBytes < 0) return;
EncodeOutcome(r) ==
    IF r < 0
      THEN arDecodeAndPlaySample_Return("encode")
      ELSE /\ encodedBytes' = r
           /\ pc' = "frame_forward"
           /\ UNCHANGED <<sampleData, sampleLength, decodedSamples, inputPcm, last>>

\* encodedBytes = opus_encode(encoder, inputPcm, decodedSamples, opusData, 4000);
\* if (encodedBytes < 0) return;
\* The library reads decodedSamples samples per encoder channel from inputPcm
\* and stores the packet into opusData (the packet's bytes are not modelled,
\* only its length).
arDecodeAndPlaySample_Encode ==
    /\ pc = "frame_encode"
    /\ \E r \in EncodeResults :
         /\ LET ch == IF encoder \in DOMAIN heap THEN heap[encoder].channels ELSE 0
                rd == Cells(decodedSamples * ch)
                wr == IF r > 0 THEN {r - 1} ELSE {}
            IN  /\ encoderInput' =
                      [k \in 1..(decodedSamples * ch) |-> ReadCell(heap, inputPcm, k - 1)]
                /\ touched' = touched \cup Touch(inputPcm, "r", rd)
                                      \cup Touch(opusData, "w", wr)
                /\ memFault' = (memFault \/ encoder \notin DOMAIN heap
                                  \/ AccessFault(heap, inputPcm, rd)
                                  \/ AccessFault(heap, opusData, wr))
                /\ heap' = heap
         /\ calls' = [calls EXCEPT ![Len(calls)].enc =
                         IF r < 0 THEN "error" ELSE "ok"]
         /\ EncodeOutcome(r)
    /\ UNCHANGED <<handles, opusConfig, initLocals, counters, goArCleanupCalls,
                   forwards, entry, sinceCleanup>>
    /\ UNCHANGED otherThread

\* The log after call number k invoked goArPlayEncodedSample twice.
Forwarded_Twice(log, k) == Append(Append(log, k), k)

\* The log after call number k invoked goArPlayEncodedSample(opusData, encodedBytes).
Forwarded(log, k) == Append(log, k)

\* goArPlayEncodedSample(opusData, encodedBytes); and return.
arDecodeAndPlaySample_Forward ==
    /\ pc = "frame_forward"
    /\ forwards' = Forwarded(forwards, Len(calls))
    /\ touched' = touched \cup Touch(opusData, "r",
                                     IF encodedBytes > 0 THEN {encodedBytes - 1} ELSE {})
    /\ memFault' = (memFault \/ opusData \notin DOMAIN heap)
    /\ arDecodeAndPlaySample_Return("forwarded")
    /\ UNCHANGED <<handles, opusConfig, heap, initLocals, counters,
                   goArCleanupCalls, calls, encoderInput, entry, sinceCleanup>>
    /\ UNCHANGED otherThread

arDecodeAndPlaySample ==
    \/ \E data \in Frames \cup {NullFrame} :
       \E len \in SampleLengths : arDecodeAndPlaySample_Enter(data, len)
    \/ arDecodeAndPlaySample_Decode
    \/ arDecodeAndPlaySample_Downmix
    \/ arDecodeAndPlaySample_Encode
    \/ arDecodeAndPlaySample_Forward

\* The running callback returns to its caller.
ReturnToCaller ==
    /\ pc \in {"init_return", "cleanup_return", "frame_return"}
    /\ pc' = "idle"
    /\ entry' = NoEntry
    /\ last' = NoLast
    /\ touched' = {}
    /\ encoderInput' = <<>>
    /\ encodedBytes' = 0
    /\ config' = ZeroConfig
    /\ UNCHANGED <<handles, opusConfig, heap, sampleData,
                   sampleLength, decodedSamples, inputPcm, counters,
                   goArCleanupCalls, calls, forwards, memFault, sinceCleanup>>
    /\ UNCHANGED otherThread

Next == arInit \/ arCleanup \/ arDecodeAndPlaySample \/ ReturnToCaller

Spec == Init /\ [][Next]_vars

\* ---- arCleanup called from another thread ----
\* Nothing in callback.c takes a lock: a second thread can run arCleanup,
\* statement by statement, between any two steps of a running
\* arDecodeAndPlaySample.

\* arDecodeAndPlaySample is past its entry check and has not returned.
InFlight ==
    pc \in {"frame_decode", "frame_downmix", "frame_encode", "frame_forward"}

\* What the second thread leaves alone in every step.
firstThread ==
    <<pc, opusConfig, initLocals, frameLocals, epoch, calls, forwards,
      encoderInput, touched, entry, last>>

\* The second thread enters arCleanup while the first is in flight.
concurrent_arCleanup_Enter ==
    /\ otherPc = "idle"
    /\ InFlight
    /\ Invocations < MaxCalls
    /\ otherPc' = "cleanup_decoder"
    /\ overlapped' = TRUE
    /\ cleanupCalls' = cleanupCalls + 1
    /\ UNCHANGED <<firstThread, handles, heap, memFault, goArCleanupCalls,
                   sinceCleanup>>

\* if (decoder != NULL) { opus_multistream_decoder_destroy(decoder); decoder = NULL; }
concurrent_arCleanup_Decoder ==
    /\ otherPc = "cleanup_decoder"
    /\ IF decoder # NULL
         THEN /\ heap' = HeapFree(heap, {decoder})
              /\ memFault' = (memFault \/ FreeFault(heap, {decoder}))
              /\ decoder' = NULL
         ELSE UNCHANGED <<heap, memFault, decoder>>
    /\ otherPc' = "cleanup_encoder"
    /\ UNCHANGED <<firstThread, encoder, decodedPcm, encodePcm, opusData,
                   cleanupCalls, goArCleanupCalls, sinceCleanup, overlapped>>

\* if (encoder != NULL) { opus_encoder_destroy(encoder); encoder = NULL; }
concurrent_arCleanup_Encoder ==
    /\ otherPc = "cleanup_encoder"
    /\ IF encoder # NULL
         THEN /\ heap' = HeapFree(heap, {encoder})
              /\ memFault' = (memFault \/ FreeFault(heap, {encoder}))
              /\ encoder' = NULL
         ELSE UNCHANGED <<heap, memFault, encoder>>
    /\ otherPc' = "cleanup_decodedPcm"
    /\ UNCHANGED <<firstThread, decoder, decodedPcm, encodePcm, opusData,
                   cleanupCalls, goArCleanupCalls, sinceCleanup, overlapped>>

\* if (decodedPcm != NULL) { free(decodedPcm); decodedPcm = NULL; }
concurrent_arCleanup_DecodedPcm ==
    /\ otherPc = "cleanup_decodedPcm"
    /\ IF decodedPcm # NULL
         THEN /\ heap' = HeapFree(heap, {decodedPcm})
              /\ memFault' = (memFault \/ FreeFault(heap, {decodedPcm}))
              /\ decodedPcm' = NULL
         ELSE UNCHANGED <<heap, memFault, decodedPcm>>
    /\ otherPc' = "cleanup_encodePcm"
    /\ UNCHANGED <<firstThread, decoder, encoder, encodePcm, opusData,
                   cleanupCalls, goArCleanupCalls, sinceCleanup, overlapped>>

\* if (encodePcm != NULL) { free(encodePcm); encodePcm = NULL; }
concurrent_arCleanup_EncodePcm ==
    /\ otherPc = "cleanup_encodePcm"
    /\ IF encodePcm # NULL
         THEN /\ heap' = HeapFree(heap, {encodePcm})
              /\ memFault' = (memFault \/ FreeFault(heap, {encodePcm}))
              /\ encodePcm' = NULL
         ELSE UNCHANGED <<heap, memFault, encodePcm>>
    /\ otherPc' = "cleanup_opusData"
    /\ UNCHANGED <<firstThread, decoder, encoder, decodedPcm, opusData,
                   cleanupCalls, goArCleanupCalls, sinceCleanup, overlapped>>

\* if (opusData != NULL) { free(opusData); opusData = NULL; }
concurrent_arCleanup_OpusData ==
    /\ otherPc = "cleanup_opusData"
    /\ IF opusData # NULL
         THEN /\ heap' = HeapFree(heap, {opusData})
              /\ memFault' = (memFault \/ FreeFault(heap, {opusData}))
              /\ opusData' = NULL
         ELSE UNCHANGED <<heap, memFault, opusData>>
    /\ otherPc' = "cleanup_goArCleanup"
    /\ UNCHANGED <<firstThread, decoder, encoder, decodedPcm, encodePcm,
                   cleanupCalls, goArCleanupCalls, sinceCleanup, overlapped>>

\* goArCleanup(); and return.
concurrent_arCleanup_GoArCleanup ==
    /\ otherPc = "cleanup_goArCleanup"
    /\ goArCleanupCalls' = goArCleanupCalls + 1
    /\ sinceCleanup' = TRUE
    /\ otherPc' = "idle"
    /\ UNCHANGED <<firstThread, handles, heap, memFault, cleanupCalls,
                   overlapped>>

concurrent_arCleanup ==
    \/ concurrent_arCleanup_Enter
    \/ concurrent_arCleanup_Decoder
    \/ concurrent_arCleanup_Encoder
    \/ concurrent_arCleanup_DecodedPcm
    \/ concurrent_arCleanup_EncodePcm
    \/ concurrent_arCleanup_OpusData
    \/ concurrent_arCleanup_GoArCleanup

\* The first thread makes its calls one after the other and starts none
\* while the second thread is inside arCleanup; the second thread runs
\* arCleanup while the first is inside arDecodeAndPlaySample.
FirstThreadStep == (pc # "idle" \/ otherPc = "idle") /\ Next

NextConcurrent == FirstThreadStep \/ concurrent_arCleanup

SpecConcurrent == Init /\ [][NextConcurrent]_vars

(***************************************************************************)
(* Properties.                                                             *)
(***************************************************************************)

\* TranscodeFrame's entry condition on the static state: both codec handles set.
SessionLive == decoder # NULL /\ encoder # NULL

\* No callback is tearing the state down or building it.
Quiescent ==
    pc \in {"idle", "frame_decode", "frame_downmix", "frame_encode",
            "frame_forward", "frame_return"}

AllHandlesNull ==
    /\ decoder = NULL
    /\ encoder = NULL
    /\ decodedPcm = NULL
    /\ encodePcm = NULL
    /\ opusData = NULL

Objects(kind) == {h \in DOMAIN heap : h.kind = kind}

HandlesAsAtEntry ==
    /\ decoder = entry.decoder
    /\ encoder = entry.encoder
    /\ decodedPcm = entry.decodedPcm
    /\ encodePcm = entry.encodePcm
    /\ opusData = entry.opusData

ResourceFailures == {"decoder", "encoder", "decodedPcm", "encodePcm", "opusData"}

\* C1: when arInit returns failure because the decoder, the encoder or one of
\* the three buffers could not be created, the decoder, the encoder, the
\* decode buffer, the downmix buffer and the packet buffer are all
\* unallocated, whatever the state the call started from.
C1_FailedInitReleasesEverything ==
    (pc = "init_return" /\ last.ret # 0 /\ last.cause \in ResourceFailures)
        => (AllHandlesNull /\ DOMAIN heap = {})

\* C2: at every instant at most one decoder and at most one encoder is live,
\* and when arInit constructs the new decoder or the new encoder no decoder
\* or encoder of an earlier arInit call is still live.
C2_AtMostOneCodecPair ==
    /\ Cardinality(Objects("decoder")) <= 1
    /\ Cardinality(Objects("encoder")) <= 1
    /\ pc \in {"init_create_decoder", "init_create_encoder"}
         => \A h \in Objects("decoder") \cup Objects("encoder") : h.epoch = epoch

\* C2 witness: a re-init of a live session has constructed its new decoder.
C2_Witness ==
    /\ pc = "init_create_encoder"
    /\ entry.decoder # NULL
    /\ entry.encoder # NULL
    /\ decoder # NULL
    /\ decoder # entry.decoder

\* C3: an arCleanup that starts with no live session changes nothing and
\* notifies nobody: handles, allocations and the number of goArCleanup
\* notifications are at its return what they were at its entry.
C3_CleanupWithoutSessionIsNoOp ==
    (pc = "cleanup_return" /\ ~(entry.decoder # NULL /\ entry.encoder # NULL))
        => /\ HandlesAsAtEntry
           /\ DOMAIN heap = entry.allocated
           /\ goArCleanupCalls = entry.goArCleanupCalls

\* C4: when arCleanup returns, nothing is allocated: every handle is null
\* and the heap holds no decoder, encoder or buffer.
C4_CleanupReleasesEverything ==
    pc = "cleanup_return" => (AllHandlesNull /\ DOMAIN heap = {})

\* C4 witness: arCleanup returns after starting from the state a failed
\* re-init left (no decoder, buffers of the earlier session still allocated).
C4_Witness ==
    /\ pc = "cleanup_return"
    /\ entry.decoder = NULL
    /\ entry.encodePcm # NULL
    /\ entry.decodedPcm # NULL
    /\ entry.opusData # NULL

\* C5: an arDecodeAndPlaySample call that starts after arCleanup returned and
\* before an arInit returned success does nothing: no decoder or encoder
\* call, no buffer touched, nothing forwarded.
C5_FrameAfterCleanupIsNoOp ==
    (pc = "frame_return" /\ entry.sinceCleanup)
        => /\ calls[Len(calls)] = [dec |-> "none", enc |-> "none"]
           /\ touched = {}
           /\ Len(forwards) = entry.forwards

\* C6: a frame whose decode or encode returned an error forwards nothing and
\* leaves the session as it was: same handles, same allocations, same stored
\* config, the codecs, the decode buffer and the packet buffer still
\* allocated.
C6_DroppedFrameKeepsSession ==
    (pc = "frame_return"
       /\ (calls[Len(calls)].dec = "error" \/ calls[Len(calls)].enc = "error"))
        => /\ Len(forwards) = entry.forwards
           /\ HandlesAsAtEntry
           /\ DOMAIN heap = entry.allocated
           /\ opusConfig = entry.opusConfig
           /\ {decoder, encoder, decodedPcm, opusData} \subseteq DOMAIN heap

\* C6 witness: the frame after a dropped frame was transcoded and forwarded.
C6_Witness ==
    /\ pc = "frame_return"
    /\ Len(calls) = 2
    /\ (calls[1].dec = "error" \/ calls[1].enc = "error")
    /\ forwards = <<2>>

\* A call whose decode and encode both returned success.
Transcoded(k) == calls[k].dec = "ok" /\ calls[k].enc = "ok"

\* The calls that are past their forward step.
SettledCalls == IF pc = "frame_forward" THEN Len(calls) - 1 ELSE Len(calls)

\* C7: the forwards are exactly the calls whose decode and encode both
\* succeeded, one forward each, in call order.
C7_ForwardsAreSuccessfulCallsInOrder ==
    forwards = SelectSeq([k \in 1..SettledCalls |-> k], Transcoded)

\* C7 witness: two successive frames were each forwarded.
C7_Witness ==
    /\ pc = "frame_return"
    /\ forwards = <<1, 2>>

\* C8: with a live session, the downmix buffer is allocated exactly when the
\* stored channelCount is greater than 2.
C8_DownmixBufferIffMoreThanStereo ==
    (Quiescent /\ SessionLive)
        => (encodePcm # NULL <=> opusConfig.channelCount > StereoChannels)

\* C9: with a live session, the buffers have the capacities of the stored
\* config: decode buffer samplesPerFrame * channelCount, downmix buffer (for
\* channelCount > 2) samplesPerFrame * 2, packet buffer 4000.
C9_BufferCapacitiesMatchConfig ==
    (Quiescent /\ SessionLive)
        => /\ decodedPcm \in DOMAIN heap
           /\ heap[decodedPcm].cap =
                 opusConfig.samplesPerFrame * opusConfig.channelCount
           /\ opusConfig.channelCount > StereoChannels
                => /\ encodePcm \in DOMAIN heap
                   /\ heap[encodePcm].cap =
                         opusConfig.samplesPerFrame * StereoChannels
           /\ opusData \in DOMAIN heap
           /\ heap[opusData].cap = PacketCapacity

\* C9 witness: a frame enters a session of more than 2 channels that the
\* second arInit call built, with the largest decode buffer of the model.
C9_Witness ==
    /\ pc = "frame_decode"
    /\ epoch = 2
    /\ opusConfig.channelCount > StereoChannels
    /\ heap[decodedPcm].cap = MaxSamplesPerFrame * MaxChannels

\* C10: for channelCount > 2, after the downmix step every decoded sample i
\* has downmix[2i] = decode[i*channelCount] and downmix[2i+1] =
\* decode[i*channelCount + 1]; the encoder reads the downmix buffer, and what
\* it reads is channels 0 and 1 of the decoded frame, decodedSamples samples
\* per channel.
C10_DownmixSelectsChannels0And1 ==
    /\ (pc = "frame_encode" /\ opusConfig.channelCount > StereoChannels)
         => /\ inputPcm = encodePcm
            /\ encodePcm # NULL
            /\ \A i \in 0..(decodedSamples - 1) :
                 /\ ReadCell(heap, encodePcm, 2 * i)
                      = ReadCell(heap, decodedPcm, i * opusConfig.channelCount)
                 /\ ReadCell(heap, encodePcm, 2 * i + 1)
                      = ReadCell(heap, decodedPcm, i * opusConfig.channelCount + 1)
    /\ (pc = "frame_forward" /\ opusConfig.channelCount > StereoChannels)
         => encoderInput =
              [k \in 1..(2 * decodedSamples) |->
                  PcmValue(sampleData, (k - 1) \div 2, (k - 1) % 2)]

\* C10 witness: a downmix of two samples of a frame of more than 2 channels.
C10_Witness ==
    /\ pc = "frame_encode"
    /\ opusConfig.channelCount > StereoChannels
    /\ decodedSamples = 2
    /\ inputPcm = encodePcm

\* C11: arInit called with a config that violates a precondition (a null
\* config, sampleRate = 0, channelCount = 0, streams = 0, coupledStreams >
\* streams, samplesPerFrame = 0) returns failure and retains nothing: the call
\* returns, its result is not 0, no resource is allocated and no session is
\* live.
C11_InvalidConfigFailsAndRetainsNothing ==
    /\ pc # "crashed"
    /\ (pc = "init_return" /\ config \in BadConfigs)
         => (last.ret # 0 /\ DOMAIN heap = {} /\ ~SessionLive)

\* C12: after arInit returns 0 for a config of c channels, the encoder is one
\* built for min(c, 2) channels with a bitrate of 64000 * min(c, 2) and the
\* decoder is one built for all c channels; the pair stays so while the
\* session is live.
C12_EncoderAtMostStereoDecoderFull ==
    /\ (pc = "init_return" /\ last.ret = 0)
         => /\ decoder \in DOMAIN heap
            /\ encoder \in DOMAIN heap
            /\ heap[decoder].channels = config.channelCount
            /\ heap[encoder].channels =
                 (IF config.channelCount < 2 THEN config.channelCount ELSE 2)
            /\ heap[encoder].bitrate =
                 (IF config.channelCount = 1 THEN 64000 ELSE 128000)
    /\ (Quiescent /\ SessionLive)
         => /\ heap[decoder].channels = opusConfig.channelCount
            /\ heap[encoder].channels =
                 (IF opusConfig.channelCount < 2 THEN opusConfig.channelCount
                                                 ELSE 2)
            /\ heap[encoder].bitrate = 64000 * heap[encoder].channels

\* C12 witness: arInit returns 0 for a config of more than 2 channels; the
\* encoder it built has 2 channels and the decoder all of them.
C12_Witness ==
    /\ pc = "init_return"
    /\ last.ret = 0
    /\ config.channelCount = MaxChannels
    /\ heap[encoder].channels = 2
    /\ heap[decoder].channels = MaxChannels

C14_StereoOrLessBypassesDownmix ==
    /\ (pc \in {"frame_encode", "frame_forward"}
          /\ opusConfig.channelCount <= StereoChannels)
         => inputPcm = decodedPcm
    /\ (pc \in {"frame_decode", "frame_downmix", "frame_encode",
                "frame_forward", "frame_return"}
          /\ opusConfig.channelCount <= StereoChannels)
         => \A t \in touched : t.buf.kind # "encodePcm"

\* C14 witness: a frame was encoded in a session of at most 2 channels while
\* the downmix buffer of an earlier session of more than 2 channels is still
\* allocated.
C14_Witness ==
    /\ pc = "frame_forward"
    /\ opusConfig.channelCount <= StereoChannels
    /\ encodePcm \in DOMAIN heap
    /\ decodedSamples > 0
    /\ inputPcm = decodedPcm

\* C15: when arInit is called on a live session and returns 0, every buffer
\* of the earlier session has been freed and the buffers of the new session
\* are newly allocated, also when the sizes are the same: no buffer that an
\* earlier arInit call allocated is still allocated.
C15_ReinitReplacesEveryBuffer ==
    (pc = "init_return" /\ last.ret = 0
       /\ entry.decoder # NULL /\ entry.encoder # NULL)
        => /\ \A h \in DOMAIN heap : h.epoch = epoch
           /\ decodedPcm \notin entry.allocated
           /\ opusData \notin entry.allocated
           /\ encodePcm \notin entry.allocated

\* C16: whenever arInit returns failure, for whatever reason, a failure
\* reported by goArInit included, no session is live when it returns, so
\* that a later arDecodeAndPlaySample forwards nothing.
C16_FailedInitLeavesNoSession ==
    (pc = "init_return" /\ last.ret # 0) => ~SessionLive

\* C17 as stated: arCleanup may run at any time, also on another thread
\* while arDecodeAndPlaySample is between its entry check and its forward,
\* and in every interleaving no destroyed decoder or encoder is used and no
\* freed buffer is read or written.
C17_CleanupAtAnyTimeIsSafe == ~memFault

\* C17 as amended: as long as no arCleanup call has overlapped an
\* arDecodeAndPlaySample call (the callbacks are invoked one after the
\* other, arCleanup at any point between them), no destroyed decoder or
\* encoder is used and no freed buffer is read or written.
C17_SerializedCleanupIsSafe == ~overlapped => ~memFault

\* C17 witness: without any overlap, a frame has been transcoded and
\* forwarded by a session built after an arCleanup call.
C17_Witness ==
    /\ ~overlapped
    /\ cleanupCalls > 0
    /\ pc = "frame_return"
    /\ last.cause = "forwarded"
    /\ touched # {}

\* The static handles.
Handles == {decoder, encoder, decodedPcm, encodePcm, opusData}

\* C18: with the calls made one after the other, between calls: if decoder
\* and encoder are both non-null (all that arDecodeAndPlaySample checks on
\* entry) then the decode buffer and the packet buffer are allocated, and so
\* is the downmix buffer when opusConfig.channelCount > 2; and
\* arDecodeAndPlaySample never uses a null or freed buffer.
C18_LiveSessionHasItsBuffers ==
    /\ (pc = "idle" /\ SessionLive)
         => /\ decoder \in DOMAIN heap
            /\ encoder \in DOMAIN heap
            /\ decodedPcm \in DOMAIN heap
            /\ opusData \in DOMAIN heap
            /\ opusConfig.channelCount > 2 => encodePcm \in DOMAIN heap
    /\ (InFlight \/ pc = "frame_return") => ~memFault

\* C18 witness: between calls, a live session of more than 2 channels built
\* by a second arInit call.
C18_Witness ==
    /\ pc = "idle"
    /\ SessionLive
    /\ epoch = 2
    /\ opusConfig.channelCount > 2
    /\ encodePcm # NULL

\* C19: over every sequence of arInit (succeeding, or failing at any point),
\* arDecodeAndPlaySample and arCleanup calls made one after the other,
\* nothing is destroyed or freed twice, every object that is allocated is
\* referenced by its static handle, and every handle whose object has been
\* released is null.
C19_NoDoubleFreeNoLeak ==
    /\ ~memFault
    /\ DOMAIN heap \subseteq Handles
    /\ \A h \in Handles : h # NULL => h \in DOMAIN heap

\* C19 witness: arInit, called on a live session, fails at its last
\* allocation and has rolled back.
C19_Witness ==
    /\ pc = "init_return"
    /\ last.cause = "opusData"
    /\ entry.decoder # NULL
    /\ entry.allocated # {}

\* C20: the decoder storing at most samplesPerFrame samples per channel,
\* every cell arDecodeAndPlaySample reads in the decode buffer has an index
\* below samplesPerFrame * channelCount and every cell it writes in the
\* downmix buffer an index below samplesPerFrame * 2, both inside the
\* buffer as allocated, in every live session, a re-initialized one included.
C20_IndicesWithinBuffers ==
    (InFlight \/ pc = "frame_return")
        => \A t \in touched :
             /\ (t.buf.kind = "decodedPcm" /\ t.op = "r")
                  => /\ t.idx >= 0
                     /\ t.idx < opusConfig.samplesPerFrame * opusConfig.channelCount
                     /\ t.buf \in DOMAIN heap
                     /\ t.idx < heap[t.buf].cap
             /\ (t.buf.kind = "encodePcm" /\ t.op = "w")
                  => /\ t.idx >= 0
                     /\ t.idx < opusConfig.samplesPerFrame * 2
                     /\ t.buf \in DOMAIN heap
                     /\ t.idx < heap[t.buf].cap

\* C20 witness: in a session that the second arInit call built with more
\* than 2 channels and fewer samples per frame than the largest, a full
\* frame has been downmixed.
C20_Witness ==
    /\ pc = "frame_encode"
    /\ epoch = 2
    /\ opusConfig.channelCount > 2
    /\ opusConfig.samplesPerFrame < MaxSamplesPerFrame
    /\ decodedSamples = opusConfig.samplesPerFrame
    /\ inputPcm = encodePcm
    /\ \E t \in touched : t.buf = encodePcm /\ t.op = "w"

====
